---- MODULE Spec2Model ----
(***************************************************************************)
(* locale-match: best_matching_locale for BCP 47 tags (src/src/bcp47.rs)   *)
(* and for POSIX locales (src/src/posix.rs).                               *)
(*                                                                         *)
(* A locale identifier is a sequence of one-character strings, so that     *)
(* letter case, delimiters and byte offsets are what they are in the code. *)
(* All identifiers of the model are ASCII: a byte offset is a character    *)
(* offset.  Offsets are 0-based as in Rust; a half-open range a..b of a    *)
(* string s is SubSeq(s, a + 1, b).                                        *)
(***************************************************************************)
EXTENDS Integers, Sequences, FiniteSets, TLC

VARIABLES grammar, available_locales, user_locales, pc, found, scored, pulled, result,
          taken, collected, case_locale, posix_locale

vars == <<grammar, available_locales, user_locales, pc, found, scored, pulled, result,
          taken, collected, case_locale, posix_locale>>

\* ------------------------------------------------------------------------
\* Bounds of the model: the longest input lists drawn in Init.
MaxAvail == 2

MaxUser == 2

\* ------------------------------------------------------------------------
\* Option<T>, and the outcome of a call (a value, or a panic of unwrap).
None == [kind |-> "None", val |-> <<>>]

Some(x) == [kind |-> "Some", val |-> x]

Panic == [kind |-> "Panic", val |-> <<>>]

is_some(o) == o.kind = "Some"

unwrap_or(o, d) == IF is_some(o) THEN o.val ELSE d

\* ------------------------------------------------------------------------
\* ASCII letters and digits.
Lowers == <<"a","b","c","d","e","f","g","h","i","j","k","l","m",
            "n","o","p","q","r","s","t","u","v","w","x","y","z">>

Uppers == <<"A","B","C","D","E","F","G","H","I","J","K","L","M",
            "N","O","P","Q","R","S","T","U","V","W","X","Y","Z">>

Digits == {"0","1","2","3","4","5","6","7","8","9"}

UpperSet == {Uppers[i] : i \in 1..26}

LowerSet == {Lowers[i] : i \in 1..26}

LowerOf == [c \in UpperSet |-> Lowers[CHOOSE i \in 1..26 : Uppers[i] = c]]

UpperOf == [c \in LowerSet |-> Uppers[CHOOSE i \in 1..26 : Lowers[i] = c]]

to_ascii_lowercase(c) == IF c \in UpperSet THEN LowerOf[c] ELSE c

to_ascii_uppercase(c) == IF c \in LowerSet THEN UpperOf[c] ELSE c

LowerStr(s) == [i \in 1..Len(s) |-> to_ascii_lowercase(s[i])]

UpperStr(s) == [i \in 1..Len(s) |-> to_ascii_uppercase(s[i])]

\* str::eq_ignore_ascii_case
eq_exact(a, b) == a = b

eq_ignore_ascii_case(a, b) ==
    /\ Len(a) = Len(b)
    /\ \A i \in 1..Len(a) : to_ascii_lowercase(a[i]) = to_ascii_lowercase(b[i])

\* ------------------------------------------------------------------------
\* Iterator adaptors used by both matchers.

\* Iterator::rev over a Vec.
RevId(s) == s

Rev(s) == [i \in 1..Len(s) |-> s[Len(s) + 1 - i]]

\* Iterator::max_by_key over the keys of the items, in iteration order: the
\* position of the LAST item whose key is maximal, 0 when there is no item.
MaxByKeyFirst(keys) ==
    IF Len(keys) = 0 THEN 0
    ELSE CHOOSE j \in 1..Len(keys) :
           /\ \A k \in 1..Len(keys) : keys[k] <= keys[j]
           /\ \A k \in 1..(j - 1) : keys[k] < keys[j]

MaxByKey(keys) ==
    LET best[j \in 0..Len(keys)] ==
          IF j = 0 THEN 0
          ELSE IF j = 1 THEN 1
          ELSE IF keys[j] >= keys[best[j - 1]] THEN j ELSE best[j - 1]
    IN  best[Len(keys)]

\* The 0-based positions 0..n-1 of enumerate(), as a sequence.
Enumerate(n) == [i \in 1..n |-> i - 1]

\* Iterator::filter over a sequence, order kept.
RECURSIVE FilterIdx(_, _)
FilterIdx(idxs, keep) ==
    IF idxs = <<>> THEN <<>>
    ELSE IF Head(idxs) \in keep
         THEN <<Head(idxs)>> \o FilterIdx(Tail(idxs), keep)
         ELSE FilterIdx(Tail(idxs), keep)

\* ------------------------------------------------------------------------
\* posix.rs: PosixLocale

TERRITORY_DELIMITER == "_"

CODESET_DELIMITER == "."

MODIFIER_DELIMITER == "@"

\* str::find(char): the 0-based offset of the first occurrence.
find(s, c) ==
    IF \E i \in 1..Len(s) : s[i] = c
    THEN Some((CHOOSE i \in 1..Len(s) :
                 s[i] = c /\ \A j \in 1..(i - 1) : s[j] # c) - 1)
    ELSE None

\* str::get(a..b): None when the range is out of order or out of bounds.
get_nonempty(s, a, b) ==
    IF a < b /\ b <= Len(s) THEN Some(SubSeq(s, a + 1, b)) ELSE None

get(s, a, b) ==
    IF a <= b /\ b <= Len(s) THEN Some(SubSeq(s, a + 1, b)) ELSE None

PosixLocale_parse_bounded(locale) ==
    LET codeset_end   == unwrap_or(find(locale, MODIFIER_DELIMITER), Len(locale))
        territory_end == unwrap_or(find(SubSeq(locale, 1, codeset_end),
                                        CODESET_DELIMITER), codeset_end)
        language_end  == unwrap_or(find(SubSeq(locale, 1, territory_end),
                                        TERRITORY_DELIMITER), territory_end)
    IN  [locale        |-> locale,
         language_end  |-> language_end,
         territory_end |-> territory_end,
         codeset_end   |-> codeset_end]

PosixLocale_parse(locale) ==
    LET codeset_end   == unwrap_or(find(locale, MODIFIER_DELIMITER), Len(locale))
        territory_end == unwrap_or(find(locale, CODESET_DELIMITER), codeset_end)
        language_end  == unwrap_or(find(locale, TERRITORY_DELIMITER), territory_end)
    IN  [locale        |-> locale,
         language_end  |-> language_end,
         territory_end |-> territory_end,
         codeset_end   |-> codeset_end]

language(p) == SubSeq(p.locale, 1, p.language_end)

territory(p) == get(p.locale, p.language_end + 1, p.territory_end)

codeset(p) == get(p.locale, p.territory_end + 1, p.codeset_end)

modifier_with_delimiter(p) == get(p.locale, p.codeset_end, Len(p.locale))

modifier(p) == get(p.locale, p.codeset_end + 1, Len(p.locale))

into_inner(p) == p.locale

\* ------------------------------------------------------------------------
\* posix.rs: best_matching_locale

\* The closure of max_by_key: the score of one available locale.
posix_field_wild(a, u, weight) ==
    IF ~is_some(a) \/ ~is_some(u) \/ eq_ignore_ascii_case(a.val, u.val)
    THEN weight ELSE 0

posix_field_penalty(a, u, weight) ==
    IF is_some(a) /\ is_some(u)
    THEN IF eq_ignore_ascii_case(a.val, u.val) THEN weight ELSE 0 - weight
    ELSE 0

posix_field(a, u, weight) ==
    IF is_some(a) /\ is_some(u) /\ eq_ignore_ascii_case(a.val, u.val)
    THEN weight ELSE 0

posix_score_flat(aval_locale, user_locale) ==
      posix_field(territory(aval_locale), territory(user_locale), 1)
    + posix_field(codeset(aval_locale),   codeset(user_locale),   1)
    + posix_field(modifier(aval_locale),  modifier(user_locale),  1)

posix_score_reversed(aval_locale, user_locale) ==
      posix_field(territory(aval_locale), territory(user_locale), 1)
    + posix_field(codeset(aval_locale),   codeset(user_locale),   2)
    + posix_field(modifier(aval_locale),  modifier(user_locale),  4)

posix_score(aval_locale, user_locale) ==
      posix_field(territory(aval_locale), territory(user_locale), 4)
    + posix_field(codeset(aval_locale),   codeset(user_locale),   2)
    + posix_field(modifier(aval_locale),  modifier(user_locale),  1)

\* The filter closure.
posix_language_matches(aval_locale, user_locale) ==
    eq_ignore_ascii_case(language(aval_locale), language(user_locale))

\* The POSIX identifiers the inputs are drawn from.
\* Each set is one vocabulary; the two lists of a call are drawn from one.
PosixVocabularies ==
    { \* languages fr / FR / ru, and ru agreeing with fr_CA.U@e on every field
      { <<"f","r">>,
        <<"F","R","_","c","a">>,
        <<"f","r","_","C","A",".","U","@","e">>,
        <<"r","u","_","C","A",".","U","@","e">> },
      \* one language, fields absent, equal up to case, and different
      { <<"f","r">>,
        <<"F","R","_","c","a">>,
        <<"f","r","_","C","A",".","U","@","e">>,
        <<"f","r",".","u","@","E">> },
      \* an empty territory, and '.' before '_'
      { <<"f","r","_">>,
        <<"f","r","_",".","U">>,
        <<"f","r","_","C","A">>,
        <<"f","r",".","U","_","C","A">> },
      \* a territory absent, and present with different values
      { <<"f","r",".","U">>,
        <<"f","r","_","C","A",".","U">>,
        <<"f","r","_","B","E",".","U">> },
      \* a territory absent, present and empty; every field empty
      { <<"f","r">>,
        <<"f","r","_">>,
        <<"_",".","@">> },
      \* strings with one empty part, as in the test group "Parts missing"
      { <<"r","u","_",".","K","O","I","8","-","R">>,
        <<"f","r","_","F","R",".","@","e","u","r","o">>,
        <<"d","e","_","D","E",".","I","S","O","-","8","8","5","9","-","1","@">> } }

PosixIds == UNION PosixVocabularies

\* Parsing is pure: the matcher reads the parse of an identifier from a table
\* that holds it for every identifier of the model.
\* The tables also hold each identifier in all-lower and in all-upper case.
CaseForms(S) == S \cup {LowerStr(id) : id \in S} \cup {UpperStr(id) : id \in S}

PosixForms == CaseForms(PosixIds)

PosixParsed == [id \in PosixForms |-> PosixLocale_parse(id)]

\* The closure of find_map for one user locale: found is Some(i), i the
\* 0-based index into the parsed available locales, or None; scored is what
\* max_by_key saw, in its iteration order: each index with its key.
posix_select(available_parsed_locales, user_locale) ==
    LET n    == Len(available_parsed_locales)
        keep == {i \in 0..(n - 1) :
                   posix_language_matches(available_parsed_locales[i + 1], user_locale)}
        its  == FilterIdx(Rev(Enumerate(n)), keep)
        keys == [j \in 1..Len(its) |->
                   posix_score(available_parsed_locales[its[j] + 1], user_locale)]
        m    == MaxByKey(keys)
    IN  [found  |-> IF m = 0 THEN None ELSE Some(its[m]),
         scored |-> [j \in 1..Len(its) |-> [i |-> its[j], key |-> keys[j]]]]

\* find_map's outcome: pulled counts the user locales taken from the iterator.
NotFound == [found |-> None, scored |-> <<>>, pulled |-> 0]

Pulled(r, k) == [found |-> r.found, scored |-> r.scored, pulled |-> k]

\* Iterator::find_map over the parsed user locales, in order.
posix_find_first(available_parsed_locales, users) ==
    IF users = <<>> THEN NotFound
    ELSE Pulled(posix_select(available_parsed_locales, PosixParsed[Head(users)]), 1)

RECURSIVE posix_find_map(_, _)
posix_find_map(available_parsed_locales, users) ==
    IF users = <<>> THEN NotFound
    ELSE LET r == posix_select(available_parsed_locales, PosixParsed[Head(users)])
         IN  IF is_some(r.found) THEN Pulled(r, 1)
             ELSE LET rest == posix_find_map(available_parsed_locales, Tail(users))
                  IN  Pulled(rest, rest.pulled + 1)

\* .into_iter().nth(i).unwrap()
nth_unwrap_from_one(v, i) == IF 1 <= i /\ i <= Len(v) THEN Some(v[i]) ELSE Panic

nth_unwrap(v, i) == IF i + 1 <= Len(v) THEN Some(v[i + 1]) ELSE Panic

\* The whole call: the index find_map produced, the keys of the deciding
\* max_by_key, and the value returned.
posix_best_matching_locale(available, user) ==
    LET available_parsed_locales ==
          [i \in 1..Len(available) |-> PosixParsed[available[i]]]
        r == posix_find_map(available_parsed_locales, user)
        e == nth_unwrap(available_parsed_locales, r.found.val)
    IN  [found  |-> r.found,
         scored |-> r.scored,
         pulled |-> r.pulled,
         result |-> IF ~is_some(r.found) THEN None
                    ELSE IF is_some(e) THEN Some(into_inner(e.val)) ELSE Panic]

\* ------------------------------------------------------------------------
\* bcp47.rs: the tag parser LanguageTag::parse of the crate language_tags,
\* which bcp47.rs calls and whose source is not part of the repository.  It
\* is modelled as the well-formedness grammar of RFC 5646 section 2.1 for
\* the langtag production (grandfathered and private-use-only tags are not
\* among the identifiers of the model), with the case normalisation the
\* matcher relies on: language, extended language, variant, extension and
\* private use in lower case, script in title case, region in upper case.

IsAlpha(c) == c \in LowerSet \/ c \in UpperSet

IsDigit(c) == c \in Digits

is_alphabetic(t) == \A i \in 1..Len(t) : IsAlpha(t[i])

is_numeric(t) == \A i \in 1..Len(t) : IsDigit(t[i])

is_alphanumeric(t) == \A i \in 1..Len(t) : IsAlpha(t[i]) \/ IsDigit(t[i])

to_uppercase_first(t) ==
    [i \in 1..Len(t) |->
       IF i = 1 THEN to_ascii_uppercase(t[i]) ELSE to_ascii_lowercase(t[i])]

\* The subtags of an identifier: the pieces between the '-' characters.
RECURSIVE SubTags(_, _)
SubTags(s, cur) ==
    IF s = <<>> THEN <<cur>>
    ELSE IF Head(s) = "-" THEN <<cur>> \o SubTags(Tail(s), <<>>)
    ELSE SubTags(Tail(s), Append(cur, Head(s)))

\* A field grown by one subtag, the subtags of one field joined by '-'.
Joined(field, t) == IF field = <<>> THEN t ELSE field \o <<"-">> \o t

EmptyTag ==
    [ok |-> TRUE, language |-> <<>>, extlang |-> <<>>, script |-> <<>>,
     region |-> <<>>, variant |-> <<>>, extension |-> <<>>, private_use |-> <<>>,
     extlangs_count |-> 0]

ParseError == [EmptyTag EXCEPT !.ok = FALSE]

\* One subtag t read in state st; the new state and the tag so far, or an
\* error.  States: Start, AfterLanguage, AfterExtLang, AfterScript,
\* AfterRegion, InExtension / InExtensionExpected, InPrivateUse /
\* InPrivateUseExpected (Expected: the block still needs a subtag).
ParseSubtag(st, tag, t) ==
    LET before_region == st \in {"AfterLanguage", "AfterExtLang", "AfterScript"}
        before_ext    == before_region \/ st = "AfterRegion"
        err == [st |-> "Error", tag |-> ParseError]
    IN
    IF t = <<>> \/ Len(t) > 8 THEN err
    ELSE IF st = "Start" THEN
        IF Len(t) < 2 \/ ~is_alphabetic(t) THEN err
        ELSE [st  |-> IF Len(t) < 4 THEN "AfterLanguage" ELSE "AfterExtLang",
              tag |-> [tag EXCEPT !.language = LowerStr(t)]]
    ELSE IF st \in {"InPrivateUse", "InPrivateUseExpected"} THEN
        IF ~is_alphanumeric(t) THEN err
        ELSE [st  |-> "InPrivateUse",
              tag |-> [tag EXCEPT !.private_use = Joined(@, LowerStr(t))]]
    ELSE IF t = <<"x">> \/ t = <<"X">> THEN
        IF st = "InExtensionExpected" THEN err
        ELSE [st  |-> "InPrivateUseExpected",
              tag |-> [tag EXCEPT !.private_use = <<"x">>]]
    ELSE IF Len(t) = 1 /\ is_alphanumeric(t) THEN
        IF st = "InExtensionExpected" THEN err
        ELSE [st  |-> "InExtensionExpected",
              tag |-> [tag EXCEPT !.extension = Joined(@, LowerStr(t))]]
    ELSE IF st \in {"InExtension", "InExtensionExpected"} THEN
        IF ~is_alphanumeric(t) THEN err
        ELSE [st  |-> "InExtension",
              tag |-> [tag EXCEPT !.extension = Joined(@, LowerStr(t))]]
    ELSE IF st = "AfterLanguage" /\ Len(t) = 3 /\ is_alphabetic(t) THEN
        IF tag.extlangs_count + 1 > 3 THEN err
        ELSE [st  |-> "AfterLanguage",
              tag |-> [tag EXCEPT !.extlang = Joined(@, LowerStr(t)),
                                  !.extlangs_count = @ + 1]]
    ELSE IF before_region /\ st # "AfterScript" /\ Len(t) = 4 /\ is_alphabetic(t) THEN
        [st |-> "AfterScript", tag |-> [tag EXCEPT !.script = to_uppercase_first(t)]]
    ELSE IF before_region
            /\ \/ Len(t) = 2 /\ is_alphabetic(t)
               \/ Len(t) = 3 /\ is_numeric(t) THEN
        [st |-> "AfterRegion", tag |-> [tag EXCEPT !.region = UpperStr(t)]]
    ELSE IF before_ext /\ is_alphanumeric(t)
            /\ \/ Len(t) >= 5 /\ IsAlpha(t[1])
               \/ Len(t) >= 4 /\ IsDigit(t[1]) THEN
        [st |-> "AfterRegion", tag |-> [tag EXCEPT !.variant = Joined(@, LowerStr(t))]]
    ELSE err

RECURSIVE ParseSubtags(_, _, _)
ParseSubtags(subs, st, tag) ==
    IF st = "Error" THEN ParseError
    ELSE IF subs = <<>> THEN
        IF st \in {"InExtensionExpected", "InPrivateUseExpected"}
        THEN ParseError ELSE tag
    ELSE LET r == ParseSubtag(st, tag, Head(subs))
         IN  ParseSubtags(Tail(subs), r.st, r.tag)

\* LanguageTag::parse(s): Ok(tag) as a tag with ok = TRUE, Err as ok = FALSE.
LanguageTag_parse(s) == ParseSubtags(SubTags(s, <<>>), "Start", EmptyTag)

\* The accessors: an absent subtag is None.
OptField(f) == IF f = <<>> THEN None ELSE Some(f)

primary_language(tag) == tag.language

extended_language(tag) == OptField(tag.extlang)

script(tag) == OptField(tag.script)

region(tag) == OptField(tag.region)

variant(tag) == OptField(tag.variant)

extension(tag) == OptField(tag.extension)

private_use(tag) == OptField(tag.private_use)

\* LanguageTag::as_str: the normalised serialisation of the tag.
RECURSIVE JoinAll(_)
JoinAll(fs) ==
    IF fs = <<>> THEN <<>>
    ELSE IF Head(fs) = <<>> THEN JoinAll(Tail(fs))
    ELSE LET rest == JoinAll(Tail(fs))
         IN  IF rest = <<>> THEN Head(fs) ELSE Head(fs) \o <<"-">> \o rest

as_str(tag) ==
    JoinAll(<<tag.language, tag.extlang, tag.script, tag.region,
              tag.variant, tag.extension, tag.private_use>>)

\* ------------------------------------------------------------------------
\* bcp47.rs: best_matching_locale

\* The BCP 47 identifiers the inputs are drawn from.
Bcp47Vocabularies ==
    { \* extended language, script and region
      { <<"z","h">>,
        <<"Z","H","-","c","m","n">>,
        <<"z","h","-","c","m","n","-","H","a","n","s","-","S","G">>,
        <<"z","h","-","h","a","n","s","-","s","g">> },
      \* an identifier the parser rejects (an empty subtag), another language
      { <<"z","h","-","-">>,
        <<"z","h">>,
        <<"Z","H","-","h","a","n","s">>,
        <<"r","u","-","H","a","n","s","-","S","G">> },
      \* variant, extension and private use
      { <<"z","h","-","1","9","9","6","-","u","-","c","a","-","x","-","a">>,
        <<"z","h","-","1","9","9","6">>,
        <<"z","h","-","u","-","c","a","-","x","-","a">>,
        <<"Z","H","-","S","G","-","X","-","A">> },
      \* a script absent, and present with different values
      { <<"z","h","-","S","G">>,
        <<"z","h","-","H","a","n","s","-","S","G">>,
        <<"z","h","-","H","a","n","t","-","S","G">> } }

Bcp47Ids == UNION Bcp47Vocabularies

\* As for POSIX, the parse of every identifier of the model.
Bcp47Forms == CaseForms(Bcp47Ids)

Bcp47Parsed == [id \in Bcp47Forms |-> LanguageTag_parse(id)]

\* filter_map(|l| LanguageTag::parse(l.as_ref()).ok().map(|tag| (l, tag)))
RECURSIVE filter_map_available(_)
filter_map_available(ls) ==
    IF ls = <<>> THEN <<>>
    ELSE LET tag == Bcp47Parsed[Head(ls)]
         IN  IF tag.ok
             THEN <<[l |-> Head(ls), tag |-> tag]>> \o filter_map_available(Tail(ls))
             ELSE filter_map_available(Tail(ls))

\* The closure of max_by_key: the score of one available tag.
bcp47_field(a, u, weight) ==
    IF is_some(a) /\ is_some(u) /\ a.val = u.val THEN weight ELSE 0

bcp47_score(aval_tag, user_tag) ==
      bcp47_field(extended_language(aval_tag), extended_language(user_tag), 32)
    + bcp47_field(script(aval_tag),            script(user_tag),            16)
    + bcp47_field(region(aval_tag),            region(user_tag),             8)
    + bcp47_field(variant(aval_tag),           variant(user_tag),            4)
    + bcp47_field(extension(aval_tag),         extension(user_tag),          2)
    + bcp47_field(private_use(aval_tag),       private_use(user_tag),        1)

\* The filter closure.
bcp47_language_any(aval_tag, user_tag) == TRUE

bcp47_language_matches(aval_tag, user_tag) ==
    primary_language(aval_tag) = primary_language(user_tag)

\* The closure of find_map for one user tag, as posix_select.
bcp47_select(available_tags, user_tag) ==
    LET n    == Len(available_tags)
        keep == {i \in 0..(n - 1) :
                   bcp47_language_matches(available_tags[i + 1].tag, user_tag)}
        its  == FilterIdx(Rev(Enumerate(n)), keep)
        keys == [j \in 1..Len(its) |->
                   bcp47_score(available_tags[its[j] + 1].tag, user_tag)]
        m    == MaxByKey(keys)
    IN  [found  |-> IF m = 0 THEN None ELSE Some(its[m]),
         scored |-> [j \in 1..Len(its) |-> [i |-> its[j], key |-> keys[j]]]]

\* filter_map(|locale| LanguageTag::parse(locale.as_ref()).ok()) and then
\* find_map, over the user locales in order.
RECURSIVE bcp47_find_map_abort(_, _)
bcp47_find_map_abort(available_tags, users) ==
    IF users = <<>> THEN NotFound
    ELSE LET user_tag == Bcp47Parsed[Head(users)]
         IN  IF ~user_tag.ok THEN Pulled(NotFound, 1)
             ELSE LET r == bcp47_select(available_tags, user_tag)
                  IN  IF is_some(r.found) THEN Pulled(r, 1)
                      ELSE LET rest == bcp47_find_map_abort(available_tags, Tail(users))
                           IN  Pulled(rest, rest.pulled + 1)

RECURSIVE bcp47_find_map(_, _)
bcp47_find_map(available_tags, users) ==
    IF users = <<>> THEN NotFound
    ELSE LET user_tag == Bcp47Parsed[Head(users)]
             r == IF user_tag.ok THEN bcp47_select(available_tags, user_tag)
                  ELSE NotFound
         IN  IF is_some(r.found) THEN Pulled(r, 1)
             ELSE LET rest == bcp47_find_map(available_tags, Tail(users))
                  IN  Pulled(rest, rest.pulled + 1)

\* The element .0 of the pair: the identifier as the caller gave it.
pair_tag_str(pair) == as_str(pair.tag)

pair_0(pair) == pair.l

\* The whole call, as posix_best_matching_locale.
bcp47_best_matching_locale(available, user) ==
    LET available_tags == filter_map_available(available)
        r == bcp47_find_map(available_tags, user)
        e == nth_unwrap(available_tags, r.found.val)
    IN  [found  |-> r.found,
         scored |-> r.scored,
         pulled |-> r.pulled,
         result |-> IF ~is_some(r.found) THEN None
                    ELSE IF is_some(e) THEN Some(pair_0(e.val)) ELSE Panic]

\* ------------------------------------------------------------------------
\* The inputs.

Vocabularies(g) == IF g = "posix" THEN PosixVocabularies ELSE Bcp47Vocabularies

SeqsUpTo(S, n) == UNION {[1..k -> S] : k \in 0..n}

\* ------------------------------------------------------------------------
\* The state machine: one call of one of the two entry points on inputs
\* drawn in Init.  taken counts the items the call has taken from the
\* iterator over available_locales; collected is the Vec the call collects
\* (available_parsed_locales, available_tags), which it has dropped when it
\* returns.  case_locale and posix_locale belong to a direct call of
\* PosixLocale::parse, see SpecParse.

Init ==
    /\ grammar \in {"bcp47", "posix"}
    /\ \E V \in Vocabularies(grammar) :
         /\ available_locales \in SeqsUpTo(V, MaxAvail)
         /\ user_locales \in SeqsUpTo(V, MaxUser)
    /\ pc = "call"
    /\ found = None
    /\ scored = <<>>
    /\ pulled = 0
    /\ result = None
    /\ taken = 0
    /\ collected = <<>>
    /\ case_locale = <<>>
    /\ posix_locale = None

Bcp47Call ==
    /\ pc = "call"
    /\ grammar = "bcp47"
    /\ LET r == bcp47_best_matching_locale(available_locales, user_locales)
       IN  /\ found' = r.found
           /\ scored' = r.scored
           /\ pulled' = r.pulled
           /\ result' = r.result
    /\ pc' = "done"
    /\ taken' = Len(available_locales)
    /\ UNCHANGED <<grammar, available_locales, user_locales>>
    /\ UNCHANGED <<collected, case_locale, posix_locale>>

PosixCall ==
    /\ pc = "call"
    /\ grammar = "posix"
    /\ LET r == posix_best_matching_locale(available_locales, user_locales)
       IN  /\ found' = r.found
           /\ scored' = r.scored
           /\ pulled' = r.pulled
           /\ result' = r.result
    /\ pc' = "done"
    /\ taken' = Len(available_locales)
    /\ UNCHANGED <<grammar, available_locales, user_locales>>
    /\ UNCHANGED <<collected, case_locale, posix_locale>>

Next == Bcp47Call \/ PosixCall

Spec == Init /\ [][Next]_vars

\* ------------------------------------------------------------------------
\* The same call, one pull of an iterator at a time.  collect() drives the
\* iterator over available_locales to its end before the call goes on;
\* find_map pulls one user locale at a time and stops at the first for which
\* its closure returns Some.

StepVocabularies(g) ==
    IF g = "posix"
    THEN {{ <<"f","r">>,
            <<"F","R","_","c","a">>,
            <<"f","r","_","C","A",".","U","@","e">>,
            <<"r","u","_","C","A",".","U","@","e">> }}
    ELSE {{ <<"z","h","-","-">>,
            <<"z","h">>,
            <<"Z","H","-","h","a","n","s">>,
            <<"r","u","-","H","a","n","s","-","S","G">> }}

InitSteps ==
    /\ grammar \in {"bcp47", "posix"}
    /\ \E V \in StepVocabularies(grammar) :
         /\ available_locales \in SeqsUpTo(V, MaxAvail)
         /\ user_locales \in SeqsUpTo(V, MaxUser)
    /\ pc = "collect"
    /\ found = None
    /\ scored = <<>>
    /\ pulled = 0
    /\ result = None
    /\ taken = 0
    /\ collected = <<>>
    /\ case_locale = <<>>
    /\ posix_locale = None

\* What map / filter_map hands to collect for one available locale: a
\* sequence of one item, or of none when filter_map drops the locale.
collect_item(g, l) ==
    IF g = "posix" THEN <<PosixParsed[l]>>
    ELSE IF Bcp47Parsed[l].ok THEN <<[l |-> l, tag |-> Bcp47Parsed[l]]>>
    ELSE <<>>

\* collect() ends when the iterator over available_locales is exhausted.
collect_any(n, len) == TRUE

collect_ended(n, len) == n = len

\* The closure of find_map on one user locale; a user locale that
\* filter_map drops never reaches the closure.
find_map_item(g, vec, l) ==
    IF g = "posix" THEN posix_select(vec, PosixParsed[l])
    ELSE IF Bcp47Parsed[l].ok THEN bcp47_select(vec, Bcp47Parsed[l])
    ELSE [found |-> None, scored |-> <<>>]

CollectNext ==
    /\ pc = "collect"
    /\ taken < Len(available_locales)
    /\ taken' = taken + 1
    /\ collected' = collected \o collect_item(grammar, available_locales[taken + 1])
    /\ UNCHANGED <<grammar, available_locales, user_locales, pc, found, scored,
                   pulled, result, case_locale, posix_locale>>

CollectEnd ==
    /\ pc = "collect"
    /\ collect_ended(taken, Len(available_locales))
    /\ pc' = "find_map"
    /\ UNCHANGED <<grammar, available_locales, user_locales, found, scored,
                   pulled, result, taken, collected, case_locale, posix_locale>>

FindMapNext ==
    /\ pc = "find_map"
    /\ pulled < Len(user_locales)
    /\ pulled' = pulled + 1
    /\ LET r == find_map_item(grammar, collected, user_locales[pulled + 1])
       IN  /\ found' = r.found
           /\ scored' = r.scored
           /\ pc' = IF is_some(r.found) THEN "nth" ELSE "find_map"
    /\ UNCHANGED <<grammar, available_locales, user_locales, result, taken,
                   collected, case_locale, posix_locale>>

FindMapEnd ==
    /\ pc = "find_map"
    /\ pulled = Len(user_locales)
    /\ result' = None
    /\ collected' = <<>>
    /\ pc' = "done"
    /\ UNCHANGED <<grammar, available_locales, user_locales, found, scored,
                   pulled, taken, case_locale, posix_locale>>

NthUnwrap ==
    /\ pc = "nth"
    /\ LET e == nth_unwrap(collected, found.val)
       IN  result' = IF ~is_some(e) THEN Panic
                     ELSE IF grammar = "posix" THEN Some(into_inner(e.val))
                     ELSE Some(pair_0(e.val))
    /\ collected' = <<>>
    /\ pc' = "done"
    /\ UNCHANGED <<grammar, available_locales, user_locales, found, scored,
                   pulled, taken, case_locale, posix_locale>>

NextSteps == CollectNext \/ CollectEnd \/ FindMapNext \/ FindMapEnd \/ NthUnwrap

SpecSteps == InitSteps /\ [][NextSteps]_vars

\* ------------------------------------------------------------------------
\* What the claims speak of, stated from the parsed fields alone and not
\* from the matcher: positions below are 1-based positions of the ORIGINAL
\* lists.

Grammars == {"bcp47", "posix"}

Forms(g) == IF g = "posix" THEN PosixForms ELSE Bcp47Forms

Parses(g, id) == g = "posix" \/ Bcp47Parsed[id].ok

\* The language field, case folded.
FoldedLanguage(g, id) ==
    IF g = "posix" THEN LowerStr(language(PosixParsed[id]))
    ELSE LowerStr(primary_language(Bcp47Parsed[id]))

\* The secondary fields, most significant first, and their weights.
SecondaryFields(g, id) ==
    IF g = "posix"
    THEN LET p == PosixParsed[id] IN <<territory(p), codeset(p), modifier(p)>>
    ELSE LET t == Bcp47Parsed[id]
         IN  <<extended_language(t), script(t), region(t), variant(t),
               extension(t), private_use(t)>>

Weights(g) == IF g = "posix" THEN <<4, 2, 1>> ELSE <<32, 16, 8, 4, 2, 1>>

\* What the claims read of an identifier: whether it parses, its language
\* and its secondary fields, the values case folded.
Folded ==
    [g \in Grammars |->
       [id \in Forms(g) |->
          [parses   |-> Parses(g, id),
           language |-> FoldedLanguage(g, id),
           fields   |-> [k \in 1..Len(Weights(g)) |->
                           LET f == SecondaryFields(g, id)[k]
                           IN  IF is_some(f) THEN Some(LowerStr(f.val)) ELSE None]]]]

\* Field k is present in both identifiers with the same value, case ignored.
FieldAgrees(g, a, u, k) ==
    LET fa == Folded[g][a].fields[k]
        fu == Folded[g][u].fields[k]
    IN  is_some(fa) /\ fa = fu

BothPresent(g, a, u, k) ==
    is_some(Folded[g][a].fields[k]) /\ is_some(Folded[g][u].fields[k])

RECURSIVE SumTo(_, _)
SumTo(f, k) == IF k = 0 THEN 0 ELSE f[k] + SumTo(f, k - 1)

SameLanguage(g, a, u) ==
    /\ Folded[g][a].parses /\ Folded[g][u].parses
    /\ Folded[g][a].language = Folded[g][u].language

\* The score of the claims: the weights of the agreeing fields, summed.
ClaimScore(g, a, u) ==
    LET w == Weights(g)
    IN  SumTo([k \in 1..Len(w) |-> IF FieldAgrees(g, a, u, k) THEN w[k] ELSE 0],
              Len(w))

\* The number of agreeing fields.
AgreeCount(g, a, u) ==
    Cardinality({k \in 1..Len(Weights(g)) : FieldAgrees(g, a, u, k)})

Done == pc = "done"

NAvail == Len(available_locales)

NUser == Len(user_locales)

\* The original position of the element that has 0-based index i in the
\* list the matcher selects from (bcp47: the parseable identifiers only);
\* 0 when there is none.
OrigPos(g, available, i) ==
    LET at == {p \in 1..Len(available) :
                 /\ Parses(g, available[p])
                 /\ Cardinality({q \in 1..p : Parses(g, available[q])}) = i + 1}
    IN  IF at = {} THEN 0 ELSE CHOOSE p \in at : TRUE

\* The original position the call selected, 0 when it selected none.
Selected == IF is_some(found) THEN OrigPos(grammar, available_locales, found.val) ELSE 0

\* The candidates of user preference j: the positions of the available
\* identifiers that have its language.
Candidates(j) ==
    {p \in 1..NAvail :
       SameLanguage(grammar, available_locales[p], user_locales[j])}

Score(p, j) == ClaimScore(grammar, available_locales[p], user_locales[j])

\* The first user preference that has a candidate, 0 when none has.
Decider ==
    LET js == {j \in 1..NUser : Candidates(j) # {}}
    IN  IF js = {} THEN 0 ELSE CHOOSE j \in js : \A k \in js : j <= k

\* The candidate of preference j the claims call the winner: of maximum
\* score, and the earliest of those.
Winner(j) ==
    CHOOSE p \in Candidates(j) :
      /\ \A q \in Candidates(j) : Score(q, j) <= Score(p, j)
      /\ \A q \in Candidates(j) : Score(q, j) = Score(p, j) => p <= q

\* ------------------------------------------------------------------------
\* C1 Exact passthrough: whenever a call returns Some(x), x is the element
\* of the original available list at the position the call selected, with
\* the caller's characters and letter case, in bcp47 also when unparseable
\* identifiers precede it.
C1_ExactPassthrough ==
    (Done /\ result.kind = "Some") =>
        /\ Selected \in 1..NAvail
        /\ result.val = available_locales[Selected]

\* C1 happens: a bcp47 call returns the second available identifier, which
\* is not in normalised case, after an unparseable first one.
C1_Witness ==
    /\ Done /\ grammar = "bcp47" /\ result.kind = "Some"
    /\ NAvail = 2 /\ Selected = 2
    /\ ~Parses(grammar, available_locales[1])
    /\ result.val # as_str(Bcp47Parsed[result.val])

\* C2 Language gate: whenever a call returns Some(x), the language of x
\* equals, case folded, the language of the user preference at which the
\* search stopped; no identifier of another language is selected.
C2_LanguageGate ==
    (Done /\ result.kind = "Some") =>
        /\ pulled \in 1..NUser
        /\ Selected \in 1..NAvail
        /\ Parses(grammar, user_locales[pulled])
        /\ Folded[grammar][available_locales[Selected]].language
             = Folded[grammar][user_locales[pulled]].language

\* C2 happens: an available identifier of another language agrees with the
\* deciding preference on more secondary fields than the selected one does,
\* and is not selected.
C2_Witness ==
    /\ Done /\ result.kind = "Some" /\ NAvail = 2
    /\ \E p \in 1..NAvail :
         /\ p # Selected
         /\ Parses(grammar, available_locales[p])
         /\ ~SameLanguage(grammar, available_locales[p], user_locales[pulled])
         /\ AgreeCount(grammar, available_locales[p], user_locales[pulled]) >= 2
         /\ AgreeCount(grammar, available_locales[Selected], user_locales[pulled]) = 0

\* C3 User priority and fallthrough: the search stops at the first user
\* preference that has a candidate, the preferences before it being skipped,
\* and the call selects that preference's winner; later preferences do not
\* matter.
C3_UserPriority ==
    (Done /\ Decider # 0) =>
        /\ result.kind = "Some"
        /\ pulled = Decider
        /\ Selected = Winner(Decider)

\* C3 happens: the first preference matches an available identifier on
\* language only, the second preference equals another available identifier
\* exactly, and the first preference's candidate is returned.
C3_Witness ==
    /\ Done /\ result.kind = "Some"
    /\ NUser = 2 /\ NAvail = 2 /\ Decider = 1
    /\ Score(Selected, 1) = 0
    /\ available_locales[Selected] # user_locales[1]
    /\ \E p \in 1..NAvail :
         /\ p # Selected
         /\ available_locales[p] = user_locales[2]
         /\ p \notin Candidates(1)

\* C4 Maximum score: the selected identifier has the maximum score among
\* the candidates of the deciding preference, the score being the sum of the
\* weights (bcp47 32, 16, 8, 4, 2, 1; posix 4, 2, 1) of the secondary fields
\* present on both sides and equal case-insensitively.
C4_MaximumScore ==
    (Done /\ result.kind = "Some") =>
        \A q \in Candidates(pulled) : Score(q, pulled) <= Score(Selected, pulled)

\* C4 happens: a candidate that agrees with the preference on more fields
\* than the selected one, but on less significant ones, loses.
C4_Witness ==
    /\ Done /\ result.kind = "Some"
    /\ \E q \in Candidates(pulled) :
         /\ AgreeCount(grammar, available_locales[q], user_locales[pulled])
              > AgreeCount(grammar, available_locales[Selected], user_locales[pulled])
         /\ Score(q, pulled) < Score(Selected, pulled)

\* C5 Tie-break by position: among the candidates of the deciding
\* preference that share the maximum score, the one with the smallest
\* position in the original available list is selected.
C5_TieBreakByPosition ==
    (Done /\ result.kind = "Some") =>
        \A q \in Candidates(pulled) :
            Score(q, pulled) = Score(Selected, pulled) => Selected <= q

\* C5 happens: two different identifiers tie on the maximum score and the
\* first of them is selected.
C5_Witness ==
    /\ Done /\ result.kind = "Some" /\ Selected = 1
    /\ \E q \in Candidates(pulled) :
         /\ q > Selected
         /\ Score(q, pulled) = Score(Selected, pulled)
         /\ available_locales[q] # available_locales[Selected]

\* The weights of the fields present on both sides, summed: the most a
\* candidate can score.
PresentWeight(g, a, u) ==
    LET w == Weights(g)
    IN  SumTo([k \in 1..Len(w) |-> IF BothPresent(g, a, u, k) THEN w[k] ELSE 0],
              Len(w))

\* C6 No-opinion subtags: the key the matcher gives a candidate is the sum
\* of the weights of the fields present on both sides and equal, so a field
\* absent on either side adds zero, as a present but different one does; and
\* every candidate of the deciding preference is given a key, whatever
\* fields it lacks.
C6_NoOpinionSubtags ==
    (Done /\ result.kind = "Some") =>
        /\ {OrigPos(grammar, available_locales, scored[k].i) : k \in 1..Len(scored)}
             = Candidates(pulled)
        /\ \A k \in 1..Len(scored) :
             LET q == OrigPos(grammar, available_locales, scored[k].i)
             IN  /\ scored[k].key = Score(q, pulled)
                 /\ scored[k].key
                      <= PresentWeight(grammar, available_locales[q], user_locales[pulled])

\* C6 happens: the deciding preference omits a field that the selected
\* candidate has, and that candidate wins over an earlier candidate on the
\* fields the preference does state.
C6_Witness ==
    /\ Done /\ result.kind = "Some" /\ Selected = 2
    /\ 1 \in Candidates(pulled)
    /\ Score(1, pulled) < Score(2, pulled)
    /\ \E k \in 1..Len(Weights(grammar)) :
         /\ ~is_some(Folded[grammar][user_locales[pulled]].fields[k])
         /\ is_some(Folded[grammar][available_locales[2]].fields[k])
         /\ ~is_some(Folded[grammar][available_locales[1]].fields[k])

\* Some parseable user preference has the language of some parseable
\* available identifier.
LanguagePairExists ==
    \E j \in 1..NUser : \E p \in 1..NAvail :
        SameLanguage(grammar, available_locales[p], user_locales[j])

\* C7 Totality and the exact condition for no match: a call ends with Some
\* or None, never with a failed unwrap, and with None exactly when no
\* parseable user preference has the case-folded language of a parseable
\* available identifier; so with None when either list is empty.
C7_TotalAndNoneIff ==
    Done =>
        /\ result.kind \in {"Some", "None"}
        /\ (result.kind = "None") <=> ~LanguagePairExists
        /\ (NAvail = 0 \/ NUser = 0) => result.kind = "None"

\* C7 happens: both lists are non-empty, every identifier parses, no
\* language is shared, and the call returns None.
C7_Witness ==
    /\ Done /\ result.kind = "None"
    /\ NAvail >= 2 /\ NUser >= 2
    /\ \A p \in 1..NAvail : Parses(grammar, available_locales[p])
    /\ \A j \in 1..NUser : Parses(grammar, user_locales[j])

\* The parseable identifiers of a list, order and duplicates kept.
Parseable(g, ls) == SelectSeq(ls, LAMBDA id : Parses(g, id))

\* C8 Silent filtering in bcp47: the call returns what it returns on the two
\* lists with every unparseable identifier deleted, and never returns an
\* unparseable identifier.
C8_SilentFiltering ==
    (Done /\ grammar = "bcp47") =>
        /\ result = bcp47_best_matching_locale(
                        Parseable(grammar, available_locales),
                        Parseable(grammar, user_locales)).result
        /\ result.kind = "Some" => Parses(grammar, result.val)

\* C8 happens: an unparseable identifier comes first in both lists and the
\* call still returns the valid available identifier behind it.
C8_Witness ==
    /\ Done /\ grammar = "bcp47" /\ result.kind = "Some"
    /\ NAvail = 2 /\ NUser = 2
    /\ ~Parses(grammar, available_locales[1])
    /\ ~Parses(grammar, user_locales[1])
    /\ result.val = available_locales[2]

\* C9 Identical lists: when the two lists are the same non-empty list of
\* parseable identifiers, the call returns its first element.
C9_IdenticalLists ==
    (/\ Done
     /\ available_locales = user_locales
     /\ NAvail >= 1
     /\ \A p \in 1..NAvail : Parses(grammar, available_locales[p])) =>
        /\ result = Some(available_locales[1])
        /\ Selected = 1

\* C9 happens: the list holds two different identifiers of one language that
\* agree on a secondary field.
C9_Witness ==
    /\ Done /\ available_locales = user_locales /\ NAvail = 2
    /\ available_locales[1] # available_locales[2]
    /\ SameLanguage(grammar, available_locales[2], available_locales[1])
    /\ AgreeCount(grammar, available_locales[2], available_locales[1]) >= 1
    /\ result = Some(available_locales[1])

\* The call of the state's grammar on other inputs.
Call(g, available, user) ==
    IF g = "posix" THEN posix_best_matching_locale(available, user)
    ELSE bcp47_best_matching_locale(available, user)

\* Every identifier of a list in lower case, and in upper case.
LowerForm == [id \in PosixIds \cup Bcp47Ids |-> LowerStr(id)]

UpperForm == [id \in PosixIds \cup Bcp47Ids |-> UpperStr(id)]

LowerAll(ls) == [i \in 1..Len(ls) |-> LowerForm[ls[i]]]

UpperAll(ls) == [i \in 1..Len(ls) |-> UpperForm[ls[i]]]

\* C10 Case-insensitive matching: the index selected (and whether one is
\* selected) is the one selected when every identifier of both lists is
\* given in lower case, and the one selected when every identifier is given
\* in upper case; so inputs that differ in letter case only select alike.
C10_CaseInsensitive ==
    Done =>
        /\ found = Call(grammar, LowerAll(available_locales),
                                 LowerAll(user_locales)).found
        /\ found = Call(grammar, UpperAll(available_locales),
                                 UpperAll(user_locales)).found

\* C10 happens: the second candidate wins by a field whose letters differ in
\* case from the preference's, and is returned in the caller's case.
C10_Witness ==
    /\ Done /\ result.kind = "Some" /\ Selected = 2
    /\ 1 \in Candidates(pulled)
    /\ Score(1, pulled) < Score(2, pulled)
    /\ result.val # LowerStr(result.val)
    /\ result.val # UpperStr(result.val)
    /\ \E k \in 1..Len(Weights(grammar)) :
         /\ FieldAgrees(grammar, available_locales[2], user_locales[pulled], k)
         /\ SecondaryFields(grammar, available_locales[2])[k]
              # SecondaryFields(grammar, user_locales[pulled])[k]

\* The key max_by_key computed for the candidate at original position p.
KeyAt(p) ==
    LET i == Cardinality({q \in 1..p : Parses(grammar, available_locales[q])}) - 1
    IN  scored[CHOOSE k \in 1..Len(scored) : scored[k].i = i].key

\* Identifiers a and b have the same language and the same secondary
\* fields, except that field k is absent in a and present in b.
IdenticalExcept(g, a, b, k) ==
    /\ Folded[g][a].parses /\ Folded[g][b].parses
    /\ Folded[g][a].language = Folded[g][b].language
    /\ \A m \in 1..Len(Weights(g)) :
         m # k => Folded[g][a].fields[m] = Folded[g][b].fields[m]
    /\ ~is_some(Folded[g][a].fields[k])
    /\ is_some(Folded[g][b].fields[k])

\* The pairs C11 speaks of, among the candidates of the deciding preference:
\* p lacks field k, q has it with a value that is not the preference's.
AbsentVsMismatched(p, q, k) ==
    /\ SameLanguage(grammar, available_locales[p], user_locales[pulled])
    /\ SameLanguage(grammar, available_locales[q], user_locales[pulled])
    /\ IdenticalExcept(grammar, available_locales[p], available_locales[q], k)
    /\ Folded[grammar][available_locales[q]].fields[k]
         # Folded[grammar][user_locales[pulled]].fields[k]

FieldNumbers == 1..Len(Weights(grammar))

\* C11 No-opinion neutrality, as the code has it: two candidates that are
\* identical except that one lacks a secondary field which the other has
\* with a value different from the preference's are given EQUAL keys: the
\* absent field and the mismatched field both add zero.
C11_AbsentEqualsMismatched ==
    (Done /\ result.kind = "Some") =>
        \A p, q \in 1..NAvail : \A k \in FieldNumbers :
            AbsentVsMismatched(p, q, k) => KeyAt(p) = KeyAt(q)

\* C11 happens: the preference states the field, one candidate lacks it, the
\* other has another value, and both are given the same key, which is not
\* zero because another field agrees.
C11_Witness ==
    /\ Done /\ result.kind = "Some"
    /\ \E p, q \in 1..NAvail : \E k \in FieldNumbers :
         /\ AbsentVsMismatched(p, q, k)
         /\ is_some(Folded[grammar][user_locales[pulled]].fields[k])
         /\ KeyAt(p) = KeyAt(q)
         /\ KeyAt(p) > 0

\* C11 as the claim states it: the keys of such a pair differ by exactly the
\* weight of the field.
C11_DifferByWeight ==
    (Done /\ result.kind = "Some") =>
        \A p, q \in 1..NAvail : \A k \in FieldNumbers :
            (/\ AbsentVsMismatched(p, q, k)
             /\ is_some(Folded[grammar][user_locales[pulled]].fields[k])) =>
                \/ KeyAt(p) - KeyAt(q) = Weights(grammar)[k]
                \/ KeyAt(q) - KeyAt(p) = Weights(grammar)[k]

\* The 1-based positions of character c in s.
Occurrences(s, c) == {i \in 1..Len(s) : s[i] = c}

\* Every occurrence of c in s comes before every occurrence of d.
AllBefore(s, c, d) ==
    \A i \in Occurrences(s, c) : \A j \in Occurrences(s, d) : i < j

\* The form language[_territory][.codeset][@modifier] as C12 gives it: a
\* non-empty language, and '_', '.', '@' each at most once and in that order.
WellFormed(s) ==
    /\ Len(s) >= 1
    /\ s[1] \notin {TERRITORY_DELIMITER, CODESET_DELIMITER, MODIFIER_DELIMITER}
    /\ Cardinality(Occurrences(s, TERRITORY_DELIMITER)) <= 1
    /\ Cardinality(Occurrences(s, CODESET_DELIMITER)) <= 1
    /\ Cardinality(Occurrences(s, MODIFIER_DELIMITER)) <= 1
    /\ AllBefore(s, TERRITORY_DELIMITER, CODESET_DELIMITER)
    /\ AllBefore(s, TERRITORY_DELIMITER, MODIFIER_DELIMITER)
    /\ AllBefore(s, CODESET_DELIMITER, MODIFIER_DELIMITER)

WellFormedOnly(ls) == SelectSeq(ls, WellFormed)

\* C12 Malformed POSIX locales are ignored: a posix call returns what it
\* returns on the two lists with every malformed identifier deleted, never
\* returns a malformed available identifier, and never stops at a malformed
\* user identifier.
C12_MalformedIgnored ==
    (Done /\ grammar = "posix") =>
        /\ result = posix_best_matching_locale(
                        WellFormedOnly(available_locales),
                        WellFormedOnly(user_locales)).result
        /\ result.kind = "Some" =>
              /\ WellFormed(result.val)
              /\ WellFormed(user_locales[pulled])

\* ------------------------------------------------------------------------
\* PosixLocale::parse called on one string, as tests::test_PosixLocale does:
\* case_locale is the string, posix_locale the PosixLocale returned.

\* A string written as language[_territory][.codeset][@modifier] from its
\* parts, an optional part being Some(text) or None.
Part(o, delimiter) == IF is_some(o) THEN <<delimiter>> \o o.val ELSE <<>>

Build(l, t, c, m) ==
    l \o Part(t, TERRITORY_DELIMITER) \o Part(c, CODESET_DELIMITER)
      \o Part(m, MODIFIER_DELIMITER)

LanguageParts == {<<>>, <<"l">>, <<"l","g">>}

TerritoryParts == {None, Some(<<>>), Some(<<"T">>)}

CodesetParts == {None, Some(<<>>), Some(<<"C">>), Some(<<"C","_","D">>)}

ModifierParts ==
    {None, Some(<<>>), Some(<<"m">>), Some(<<"m","_","n">>),
     Some(<<"m",".","n">>), Some(<<"m","@","n">>)}

\* The strings of the test group "Wrong order".
WrongOrder ==
    { <<"l","a","n","g",".","c","o","d","e","s","e","t","_","r","e","g","i","o","n","@","m","o","d","i","f","i","e","r">>,
      <<"l","a","n","g","@","m","o","d","i","f","i","e","r",".","c","o","d","e","s","e","t","_","r","e","g","i","o","n">>,
      <<"l","a","n","g","_","r","e","g","i","o","n","@","m","o","d","i","f","i","e","r",".","c","o","d","e","s","e","t">>,
      <<"l","a","n","g",".","c","o","d","e","s","e","t","@","m","o","d","i","f","i","e","r","_","r","e","g","i","o","n">>,
      <<"l","a","n","g","@","m","o","d","i","f","i","e","r","_","r","e","g","i","o","n",".","c","o","d","e","s","e","t">> }

ParseInputs ==
    {Build(l, t, c, m) : l \in LanguageParts, t \in TerritoryParts,
                         c \in CodesetParts, m \in ModifierParts}
    \cup WrongOrder

InitParse ==
    /\ grammar = "posix"
    /\ available_locales = <<>>
    /\ user_locales = <<>>
    /\ pc = "case"
    /\ found = None
    /\ scored = <<>>
    /\ pulled = 0
    /\ result = None
    /\ taken = 0
    /\ collected = <<>>
    /\ case_locale \in ParseInputs
    /\ posix_locale = None

ParseCase ==
    /\ pc = "case"
    /\ posix_locale' = Some(PosixLocale_parse(case_locale))
    /\ pc' = "parsed"
    /\ UNCHANGED <<grammar, available_locales, user_locales, found, scored,
                   pulled, result, taken, collected, case_locale>>

NextParse == ParseCase

SpecParse == InitParse /\ [][NextParse]_vars

ParsedCase == pc = "parsed"

\* The 1-based position of the first c in s; Len(s) + 1 when there is none.
FirstOr(s, c, none) ==
    IF Occurrences(s, c) = {} THEN none
    ELSE CHOOSE i \in Occurrences(s, c) : \A j \in Occurrences(s, c) : i <= j

Has(s, c) == Occurrences(s, c) # {}

\* The language a scan bounded by the delimiter found before would give:
\* '.' looked for before the '@' boundary only, '_' before the '.' boundary.
BoundedLanguage(s) ==
    LET at  == FirstOr(s, MODIFIER_DELIMITER, Len(s) + 1)
        dot == FirstOr(SubSeq(s, 1, at - 1), CODESET_DELIMITER, at)
        us  == FirstOr(SubSeq(s, 1, dot - 1), TERRITORY_DELIMITER, dot)
    IN  SubSeq(s, 1, us - 1)

\* The language the code gives: each delimiter looked for in the whole
\* string, the boundary found before being only the value used when the
\* delimiter does not occur at all.
WholeStringLanguage(s) ==
    LET at  == FirstOr(s, MODIFIER_DELIMITER, Len(s) + 1)
        dot == FirstOr(s, CODESET_DELIMITER, at)
        us  == FirstOr(s, TERRITORY_DELIMITER, dot)
    IN  SubSeq(s, 1, us - 1)

Contains(s, c) == \E i \in 1..Len(s) : s[i] = c

\* C13 POSIX parser scan, as the code has it: parse finds the first '@', the
\* first '.' and the first '_' each in the WHOLE string; a missing '.'
\* defaults to the '@' boundary and a missing '_' to the '.' boundary.  The
\* language is everything before the first '_' of the string when there is
\* one, so it never contains '_', and it contains every '.' and '@' that
\* precedes that '_'.
C13_WholeStringScan ==
    ParsedCase =>
        LET p    == posix_locale.val
            lang == language(p)
        IN  /\ p.codeset_end
                 = FirstOr(case_locale, MODIFIER_DELIMITER, Len(case_locale) + 1) - 1
            /\ p.territory_end
                 = FirstOr(case_locale, CODESET_DELIMITER, p.codeset_end + 1) - 1
            /\ p.language_end
                 = FirstOr(case_locale, TERRITORY_DELIMITER, p.territory_end + 1) - 1
            /\ lang = WholeStringLanguage(case_locale)
            /\ ~Contains(lang, TERRITORY_DELIMITER)
            /\ Has(case_locale, TERRITORY_DELIMITER) =>
                  /\ Len(lang) = FirstOr(case_locale, TERRITORY_DELIMITER, 0) - 1
                  /\ \A d \in {CODESET_DELIMITER, MODIFIER_DELIMITER} :
                       Contains(lang, d)
                         <=> FirstOr(case_locale, d, Len(case_locale) + 1)
                               < FirstOr(case_locale, TERRITORY_DELIMITER, 0)

\* C13 happens: "lang.codeset_region@modifier" is parsed and its language is
\* "lang.codeset".
C13_Witness ==
    /\ ParsedCase
    /\ case_locale
         = <<"l","a","n","g",".","c","o","d","e","s","e","t","_","r","e",
           "g","i","o","n","@","m","o","d","i","f","i","e","r">>
    /\ language(posix_locale.val)
         = <<"l","a","n","g",".","c","o","d","e","s","e","t">>
    /\ Contains(language(posix_locale.val), CODESET_DELIMITER)

\* C13 as the claim states it: the scan for '.' is bounded by the '@'
\* boundary and the scan for '_' by the '.' boundary, so the language
\* contains neither '.' nor '@'.
C13_BoundedScan ==
    ParsedCase =>
        /\ language(posix_locale.val) = BoundedLanguage(case_locale)
        /\ ~Contains(language(posix_locale.val), CODESET_DELIMITER)
        /\ ~Contains(language(posix_locale.val), MODIFIER_DELIMITER)

Delimiters == {TERRITORY_DELIMITER, CODESET_DELIMITER, MODIFIER_DELIMITER}

ContainsAny(s, D) == \E i \in 1..Len(s) : s[i] \in D

OptContainsAny(o, D) == is_some(o) /\ ContainsAny(o.val, D)

\* The parts C14 allows: language and territory without any delimiter, the
\* codeset without '.' and '@'.
PartsAsClaimed(l, t, c, m) ==
    /\ ~ContainsAny(l, Delimiters)
    /\ ~OptContainsAny(t, Delimiters)
    /\ ~OptContainsAny(c, {CODESET_DELIMITER, MODIFIER_DELIMITER})

\* The parts the code parses back: moreover a '_' inside the codeset or the
\* modifier needs a territory written before it, and a '.' inside the
\* modifier needs a codeset written before it.
PartsInOrder(l, t, c, m) ==
    /\ PartsAsClaimed(l, t, c, m)
    /\ (OptContainsAny(c, {TERRITORY_DELIMITER})
          \/ OptContainsAny(m, {TERRITORY_DELIMITER})) => is_some(t)
    /\ OptContainsAny(m, {CODESET_DELIMITER}) => is_some(c)

\* The fields of a PosixLocale joined with their delimiters.
Rejoin(p) == Build(language(p), territory(p), codeset(p), modifier(p))

\* parse gave back the parts the string was written from.
ParsedAs(l, t, c, m) ==
    LET p == posix_locale.val
    IN  /\ posix_locale.kind = "Some"
        /\ language(p) = l
        /\ territory(p) = t
        /\ codeset(p) = c
        /\ modifier(p) = m
        /\ into_inner(p) = case_locale
        /\ Rejoin(p) = case_locale

\* C14 POSIX parser on well-ordered input, as the code has it: for every
\* string written as language[_territory][.codeset][@modifier] from parts
\* as the claim allows them, and where moreover '_' occurs inside the
\* codeset or the modifier only when a territory is written and '.' occurs
\* inside the modifier only when a codeset is written, parse yields exactly
\* the parts written, None for each part omitted, keeps the string, and
\* the fields joined with their delimiters give the string back.
C14_InOrderRoundTrip ==
    ParsedCase =>
        \A l \in LanguageParts, t \in TerritoryParts,
           c \in CodesetParts, m \in ModifierParts :
            (Build(l, t, c, m) = case_locale /\ PartsInOrder(l, t, c, m))
                => ParsedAs(l, t, c, m)

\* C14 happens: a string with all four parts written, a '_' inside its
\* codeset and inside its modifier, is parsed back into its parts.
C14_Witness ==
    /\ ParsedCase
    /\ \E l \in LanguageParts, t \in TerritoryParts,
           c \in CodesetParts, m \in ModifierParts :
         /\ Build(l, t, c, m) = case_locale
         /\ PartsInOrder(l, t, c, m)
         /\ l # <<>> /\ is_some(t) /\ is_some(c) /\ is_some(m)
         /\ t.val # <<>>
         /\ OptContainsAny(c, {TERRITORY_DELIMITER})
         /\ OptContainsAny(m, {TERRITORY_DELIMITER})
         /\ ParsedAs(l, t, c, m)

\* C14 as the claim states it: the same for all parts the claim allows.
C14_WellOrderedRoundTrip ==
    ParsedCase =>
        \A l \in LanguageParts, t \in TerritoryParts,
           c \in CodesetParts, m \in ModifierParts :
            (Build(l, t, c, m) = case_locale /\ PartsAsClaimed(l, t, c, m))
                => ParsedAs(l, t, c, m)

\* '_', '.', '@' each at most once in s, and in that order.
DelimitersInOrder(s) ==
    /\ \A d \in Delimiters : Cardinality(Occurrences(s, d)) <= 1
    /\ AllBefore(s, TERRITORY_DELIMITER, CODESET_DELIMITER)
    /\ AllBefore(s, TERRITORY_DELIMITER, MODIFIER_DELIMITER)
    /\ AllBefore(s, CODESET_DELIMITER, MODIFIER_DELIMITER)

\* In s, delimiter d is immediately followed by one of the later delimiters
\* or by the end of the string.
DelimiterThenBoundary(s, d, later) ==
    /\ DelimitersInOrder(s)
    /\ \E i \in Occurrences(s, d) : i = Len(s) \/ s[i + 1] \in later

\* The delimiter of secondary field k of a POSIX locale, and those after it.
PosixDelimiter == <<TERRITORY_DELIMITER, CODESET_DELIMITER, MODIFIER_DELIMITER>>

LaterDelimiters ==
    <<{CODESET_DELIMITER, MODIFIER_DELIMITER}, {MODIFIER_DELIMITER}, {}>>

\* The fields of an identifier as the matcher's parse gives them, as written.
RawField(id, k) == SecondaryFields("posix", id)[k]

EmptyButPresent(o) == o = Some(<<>>)

\* What field k added to a key: the weights are 4, 2, 1, so a key shows it.
Contribution(key, k) ==
    ((key \div Weights("posix")[k]) % 2) * Weights("posix")[k]

\* The identifiers a posix call has parsed.
ParsedIds ==
    {available_locales[p] : p \in 1..NAvail}
      \cup {user_locales[j] : j \in 1..pulled}

\* C15 Empty-but-present POSIX fields: every identifier the call parsed in
\* which a delimiter is immediately followed by the next boundary has that
\* field present and empty (Some of the empty string, not None); and in the
\* keys of the deciding max_by_key an empty field of the candidate against
\* an empty field of the preference adds the field's weight, while an empty
\* field against an absent or a non-empty one adds zero.
C15_EmptyButPresent ==
    (Done /\ grammar = "posix") =>
        /\ \A id \in ParsedIds : \A k \in 1..3 :
              DelimiterThenBoundary(id, PosixDelimiter[k], LaterDelimiters[k])
                => /\ EmptyButPresent(RawField(id, k))
                   /\ RawField(id, k) # None
        /\ result.kind = "Some" =>
              \A q \in Candidates(pulled) : \A k \in 1..3 :
                LET fa == RawField(available_locales[q], k)
                    fu == RawField(user_locales[pulled], k)
                IN  /\ (EmptyButPresent(fa) /\ EmptyButPresent(fu))
                         => Contribution(KeyAt(q), k) = Weights("posix")[k]
                    /\ (EmptyButPresent(fa) /\ ~EmptyButPresent(fu))
                         => Contribution(KeyAt(q), k) = 0
                    /\ (~EmptyButPresent(fa) /\ EmptyButPresent(fu))
                         => Contribution(KeyAt(q), k) = 0

\* C15 happens: the preference "fr_" has an empty territory; the candidate
\* with an empty territory is given the territory's weight and wins over an
\* earlier candidate that has no territory and is given nothing.
C15_Witness ==
    /\ Done /\ grammar = "posix" /\ result.kind = "Some"
    /\ NAvail = 2 /\ Selected = 2 /\ Candidates(pulled) = {1, 2}
    /\ DelimiterThenBoundary(user_locales[pulled], TERRITORY_DELIMITER,
                             LaterDelimiters[1])
    /\ EmptyButPresent(RawField(user_locales[pulled], 1))
    /\ EmptyButPresent(RawField(available_locales[2], 1))
    /\ RawField(available_locales[1], 1) = None
    /\ KeyAt(2) = 4 /\ KeyAt(1) = 0

\* The weights of the fields less significant than field k, summed.
LesserWeights(g, k) ==
    LET w == Weights(g)
    IN  SumTo([m \in 1..Len(w) |-> IF m > k THEN w[m] ELSE 0], Len(w))

\* Candidate p agrees with the deciding preference on field k.
Agrees(p, k) ==
    FieldAgrees(grammar, available_locales[p], user_locales[pulled], k)

\* Field k is the most significant field on which candidates x and y differ
\* in agreeing with the preference, and there x agrees and y does not.
DecidedAt(x, y, k) ==
    /\ \A m \in 1..(k - 1) : Agrees(x, m) <=> Agrees(y, m)
    /\ Agrees(x, k)
    /\ ~Agrees(y, k)

\* Each weight is greater than the sum of all less significant weights.
WeightsDominate ==
    \A g \in Grammars : \A k \in 1..Len(Weights(g)) :
        Weights(g)[k] > LesserWeights(g, k)

\* C16 Significance dominates count: each weight is greater than the sum of
\* all less significant weights, and of two candidates of the deciding
\* preference the one that agrees at the most significant field where their
\* outcomes differ is given the strictly greater key, whatever the less
\* significant fields do.
C16_SignificanceDominates ==
    /\ WeightsDominate
    /\ (Done /\ result.kind = "Some") =>
          \A x, y \in Candidates(pulled) : \A k \in FieldNumbers :
              DecidedAt(x, y, k) => KeyAt(x) > KeyAt(y)

\* C16 happens: the second candidate agrees on the most significant field
\* alone, the first on two less significant fields, and the second wins.
C16_Witness ==
    /\ Done /\ result.kind = "Some" /\ Selected = 2
    /\ 1 \in Candidates(pulled)
    /\ DecidedAt(2, 1, 1)
    /\ AgreeCount(grammar, available_locales[2], user_locales[pulled]) = 1
    /\ AgreeCount(grammar, available_locales[1], user_locales[pulled]) >= 2
    /\ KeyAt(2) > KeyAt(1)

\* The complete candidate list of the call: the parse of every available
\* identifier, in list order (bcp47: of every parseable one, with itself).
CompleteCandidateList ==
    IF grammar = "posix"
    THEN [i \in 1..NAvail |-> PosixParsed[available_locales[i]]]
    ELSE LET ps == Parseable(grammar, available_locales)
         IN  [i \in 1..Len(ps) |-> [l |-> ps[i], tag |-> Bcp47Parsed[ps[i]]]]

\* The user identifier at which examination must stop: the first that has
\* a candidate, the last one when none has.
StopsAt == IF Decider # 0 THEN Decider ELSE NUser

\* Where the two iterators stand in every state.
ConsumptionState ==
    /\ taken \in 0..NAvail
    /\ pulled \in 0..NUser
    /\ pulled > 0 => taken = NAvail
    /\ pulled <= StopsAt
    /\ is_some(found) => pulled = Decider
    /\ Done => (taken = NAvail /\ pulled = StopsAt)

\* What one step may do to the two iterators.
ConsumptionStep ==
    /\ available_locales' = available_locales
    /\ user_locales' = user_locales
    /\ taken' \in {taken, taken + 1}
    /\ pulled' \in {pulled, pulled + 1}
    /\ ~(taken' # taken /\ pulled' # pulled)
    /\ taken' = taken + 1 =>
          /\ pulled = 0
          /\ Len(collected')
               = Len(collected)
                   + (IF Parses(grammar, available_locales[taken']) THEN 1 ELSE 0)
          /\ collected' = SubSeq(CompleteCandidateList, 1, Len(collected'))
    /\ pulled' = pulled + 1 =>
          /\ taken = NAvail
          /\ collected = CompleteCandidateList
          /\ ~is_some(found)

\* C17 Input consumption order: each input list is traversed once, one
\* identifier at a time and in list order; every available identifier is
\* pulled and parsed before the first user identifier is pulled; each user
\* identifier is examined against the complete candidate list; and no user
\* identifier is pulled after the first one that yields a winner.
C17_ConsumptionOrder == []ConsumptionState /\ [][ConsumptionStep]_vars

\* C17 happens: with two identifiers in each list the first user identifier
\* yields a winner after both available identifiers were pulled, and the
\* second user identifier is never pulled.
C17_Witness ==
    /\ Done /\ result.kind = "Some"
    /\ NAvail = 2 /\ NUser = 2
    /\ taken = 2 /\ pulled = 1
    /\ available_locales[1] # available_locales[2]

====
